---- MODULE Spec2Model ----
(***************************************************************************)
(* Model of the portfolio site's DataLoader (data loading, in-memory       *)
(* time-based cache, fallback data).  One action per handler or            *)
(* continuation of an async function: JavaScript runs each of them to      *)
(* completion, and an async function is suspended only at its awaits.      *)
(***************************************************************************)
EXTENDS Integers, Sequences, FiniteSets, TLC

(* ------------------------------ bounds --------------------------------- *)
\* fetch() calls that direct loadData invocations issue in a behaviour.
MaxFetches == 2
\* loadAllData invocations in a behaviour.
MaxLoadAll == 2

(* --------------------------- program constants ------------------------- *)
\* The six data types, in the order loadAllData passes them to Promise.all.
Types == <<"user", "webdev", "cyber", "books", "interests", "quotes">>

Categories == {Types[i] : i \in 1..Len(Types)}

\* this.cacheExpiry, in milliseconds.
cacheExpiry == 5 * 60 * 1000

\* const cacheKey = `data_${type}`
cacheKey(type) == "data_" \o type

\* The objects a payload can be.  A parsed response body is a new object on
\* every response.json(): its identity is the number of the fetch it came from.
NoValue == [kind |-> "none", type |-> "", fetch |-> 0]

EmptyObject == [kind |-> "empty", type |-> "", fetch |-> 0]

Undefined == [kind |-> "undefined", type |-> "", fetch |-> 0]

\* this.fallbackData = this.getFallbackData(): one static object per type.
fallbackData == [t \in Categories |-> [kind |-> "fallback", type |-> t, fetch |-> 0]]

\* The object response.json() resolves with for fetch number f of data/<type>.json.
parsedBody(type, f) == [kind |-> "live", type |-> type, fetch |-> f]

\* The instants, in milliseconds from the construction of the loader, at which
\* something happens: the ages of a cache entry are then 1, one less than the
\* expiry window, the window itself, and one more.
Instants == {0, 1, cacheExpiry, cacheExpiry + 1}

\* The record of a loadData invocation, here of none.  Beside the invocation's
\* own state (type, fetch, pc, settled, value) it keeps what the invocation
\* found when it was made: whether the first expiry window from the construction
\* of the loader was still running (early), the age and the payload of the cache
\* entry for its type (age -1: no entry), the latest store for its type
\* (storedFetch, storedAge), and how the direct invocation noted before it
\* ended if that one was for the same type (prev, prevValue).
NoCall ==
  [id |-> 0, type |-> "", owner |-> 0, early |-> TRUE, age |-> -1, held |-> NoValue,
   storedFetch |-> 0, storedAge |-> -1, prev |-> "none", prevValue |-> NoValue,
   fetch |-> 0, pc |-> "none", settled |-> "pending", outcome |-> "pending",
   value |-> NoValue]

VARIABLES
  cache,       \* this.cache: cacheKey -> [data, timestamp]
  now,         \* Date.now(), from the construction of the loader
  calls,       \* the loadData invocations still pending or held by Promise.all: id -> record
  alls,        \* the loadAllData invocations, in the order they were made
  serial,      \* the invocations entered in calls so far
  fetchCount,  \* the fetch() calls issued so far
  last,        \* the direct loadData invocation made or settled last since the last clearCache()
  lastStore,   \* per type: the fetch whose result was stored last since the last clearCache(), and when
  mustRefetch, \* the types that were cached at a clearCache() and not loaded since
  themeManager,  \* the ThemeManager: currentTheme, observers
  body,          \* the data-theme attribute of document.body
  localStorage,  \* window.localStorage: key -> item
  prefersDark,   \* window.matchMedia('(prefers-color-scheme: dark)').matches
  seen,          \* what the page did last: the event, the storage write, the notification
  trail,         \* the themes the page had before each of the latest toggles made in a row
  dom,           \* the document: what each grid shows, the state of each expand button
  shown,         \* per expand button: the items and the count of the last render, the clicks since
  app,           \* the PortfolioApp: data, isInitialized, how far init() has come
  documents,     \* what data/webdev.json and data/cyber.json hold
  reordered,     \* the payloads whose projects array was put in an order other than the document's: that order
  rotation,      \* the quote rotation: data.quotes, currentQuoteIndex, the quote displayed, how far getNextQuote() has come
  debounced      \* a function returned by Utils.debounce: its timeout, the clock, the calls of it and of func

\* The state of the DataLoader.
loaderVars ==
  <<cache, now, calls, alls, serial, fetchCount, last, lastStore, mustRefetch>>

\* The state of the ThemeManager and of what it touches.
themeVars == <<themeManager, body, localStorage, prefersDark, seen>>

vars ==
  <<cache, now, calls, alls, serial, fetchCount, last, lastStore, mustRefetch,
    themeManager, body, localStorage, prefersDark, seen, trail, dom, shown,
    app, documents, reordered, rotation, debounced>>

\* The state of the grids and their expand buttons.
domVars == <<dom, shown, trail>>

\* The state of the PortfolioApp and of the payload objects it holds.
appVars == <<app, documents, reordered>>

\* The state of the quote rotation and of the debounced function.
otherVars == <<rotation, debounced>>

\* The state of the page around the loader.
pageVars ==
  <<themeManager, body, localStorage, prefersDark, seen, trail, dom, shown,
    app, documents, reordered, rotation, debounced>>

(* ----------------------------- ThemeManager ---------------------------- *)
\* Observers registered with addObserver in a page load.
MaxObservers == 2

\* The two themes of the page.
Themes == {"light", "dark"}

\* this.storageKey
storageKey == "portfolio_theme"

\* null
Null == "(null)"

\* The exception JSON.parse throws.
SyntaxError == "(SyntaxError)"

\* document.body without a data-theme attribute.
NoAttribute == "(no attribute)"

\* The callbacks given to addObserver: f returns when it is called, g throws.
Callbacks == {"f", "g"}

Throwing == {"g"}

\* The values whose JSON text the browser may hold under the storage key when
\* the page is loaded: the two themes, another string, the empty string.
Storable == {"light", "dark", "blue", ""}

\* JSON.stringify(value) for a string without quotes or backslashes in it.
JSONstringify(value) == "\"" \o value \o "\""

\* JSON.parse(item) for the JSON text of a string, SyntaxError for other text.
JSONparse(item) ==
  IF \E v \in Storable : JSONstringify(v) = item
  THEN CHOOSE v \in Storable : JSONstringify(v) = item
  ELSE SyntaxError

\* What localStorage may hold when the page is loaded for the first time:
\* nothing, the JSON text of a storable value, or text that is not JSON.
StartStorages ==
  {<< >>} \cup {[k \in {storageKey} |-> item] :
                  item \in {JSONstringify(v) : v \in Storable} \cup {"dark"}}

\* Whether a value is truthy, for null and strings.
truthy(v) == v \notin {Null, ""}

\* storageGet without the JSON.parse.
storageGet_NoParse(key) ==
  LET item == IF key \in DOMAIN localStorage THEN localStorage[key] ELSE Null
  IN IF truthy(item) THEN item ELSE Null

\* Utils.storage.get(key): the parsed item, or null (the default value) when
\* there is no item, the item is the empty text, or JSON.parse throws.
storageGet(key) ==
  LET item == IF key \in DOMAIN localStorage THEN localStorage[key] ELSE Null
  IN IF truthy(item)
     THEN (IF JSONparse(item) = SyntaxError THEN Null ELSE JSONparse(item))
     ELSE Null

\* Utils.storage.set(key, value) on storage ls: localStorage.setItem succeeds
\* (ok) or throws, and then nothing is stored.
storageSet(ls, key, value, ok) ==
  IF ok
  THEN [k \in DOMAIN ls \cup {key} |-> IF k = key THEN JSONstringify(value) ELSE ls[k]]
  ELSE ls

\* new ThemeManager()
newThemeManager == [currentTheme |-> "light", observers |-> << >>]

\* Nothing was done on the page yet.
NotSeen ==
  [loaded |-> FALSE, event |-> "none", saved |-> Null, manual |-> FALSE,
   written |-> "none", from |-> "",
   notified |-> << >>, delivered |-> << >>, logged |-> 0, escaped |-> FALSE]

\* The first observer, in registration order, whose callback throws.
firstThrowing(observers, throws) ==
  CHOOSE i \in DOMAIN observers :
    observers[i] \in throws /\ \A j \in 1..(i - 1) : observers[j] \notin throws

\* notifyObservers without the try/catch around the callback.
notifyObservers_NoCatch(observers, theme, throws) ==
  IF \E i \in DOMAIN observers : observers[i] \in throws
  THEN [delivered |-> [i \in 1..firstThrowing(observers, throws) |->
                         [callback |-> observers[i], theme |-> theme]],
        logged |-> 0, escaped |-> TRUE]
  ELSE [delivered |-> [i \in DOMAIN observers |-> [callback |-> observers[i], theme |-> theme]],
        logged |-> 0, escaped |-> FALSE]

\* notifyObservers(theme): forEach over the observers, each callback called
\* with the theme inside a try whose catch logs the error.  throws are the
\* callbacks that throw in this notification.
notifyObservers(observers, theme, throws) ==
  [delivered |-> [i \in DOMAIN observers |-> [callback |-> observers[i], theme |-> theme]],
   logged |-> Cardinality({i \in DOMAIN observers : observers[i] \in throws}),
   escaped |-> FALSE]

\* applyTheme(theme) on theme manager tm: the attribute, currentTheme, the
\* storage write, the notification.
applyTheme(tm, theme, ok, throws) ==
  [body |-> theme,
   themeManager |-> [tm EXCEPT !.currentTheme = theme],
   localStorage |-> storageSet(localStorage, storageKey, theme, ok),
   notice |-> notifyObservers(tm.observers, theme, throws)]

\* loadTheme() on theme manager tm, with matches the system preference for dark.
loadTheme(tm, matches, ok, throws) ==
  LET savedTheme == storageGet(storageKey)
      theme == IF truthy(savedTheme) THEN savedTheme
               ELSE IF matches THEN "dark" ELSE "light"
  IN applyTheme([tm EXCEPT !.currentTheme = theme], theme, ok, throws)

\* newTheme always 'dark'.
newTheme_AlwaysDark(currentTheme) == "dark"

\* const newTheme = this.currentTheme === 'light' ? 'dark' : 'light'
newTheme(currentTheme) == IF currentTheme = "light" THEN "dark" ELSE "light"

\* toggleTheme()
toggleTheme(tm, ok, throws) == applyTheme(tm, newTheme(tm.currentTheme), ok, throws)

\* this.observers.push(callback)
addObserver(tm, callback) == [tm EXCEPT !.observers = Append(@, callback)]

\* The sequence s without the elements equal to x.
RECURSIVE without(_, _)
without(s, x) ==
  IF s = << >> THEN << >>
  ELSE IF Head(s) = x THEN without(Tail(s), x)
  ELSE <<Head(s)>> \o without(Tail(s), x)

\* this.observers = this.observers.filter(obs => obs !== callback)
removeObserver(tm, callback) == [tm EXCEPT !.observers = without(@, callback)]

\* What is noted of an applyTheme that gave r, in event e, with the storage
\* write succeeding (ok) or not.
applied(r, e, ok) ==
  [seen EXCEPT !.event = e,
               !.written = IF ok THEN "ok" ELSE "failed",
               !.from = themeManager.currentTheme,
               !.notified = themeManager.observers,
               !.delivered = r.notice.delivered,
               !.logged = r.notice.logged,
               !.escaped = r.notice.escaped]

(* ------------------------------ Components ----------------------------- *)
\* The longest list of items a document holds.
MaxItems == 4

\* undefined, for a list that a document does not have.
Absent == <<[type |-> "", kind |-> "(undefined)", id |-> 0, featured |-> FALSE]>>

\* The grids that renderWithExpand fills and the expand button of each.
Grids == {"skillsGrid", "projectsGrid"}

expandButtonOf == [skillsGrid |-> "expandSkills", projectsGrid |-> "expandProjects"]

ExpandButtons == {expandButtonOf[g] : g \in Grids}

\* A list of len items of category type: skills, or projects of which the
\* even ones are featured.
itemList(type, kind, len) ==
  [i \in 1..len |-> [type |-> type, kind |-> kind, id |-> i,
                     featured |-> (kind = "project" /\ i % 2 = 0)]]

\* buildSkillCard(skill), buildProjectCard(project): the markup of one card.
buildCard(item) == [card |-> item.kind \o "-card", of |-> item]

\* items.slice(start): the items from position start + 1 on.
sliceFrom(items, start) ==
  IF start >= Len(items) THEN << >> ELSE SubSeq(items, start + 1, Len(items))

\* items.slice(0, end)
sliceTo(items, end) ==
  IF end >= Len(items) THEN items ELSE SubSeq(items, 1, end)

\* items.map(item => buildFunction(item)).join('')
markup(items) == [i \in DOMAIN items |-> buildCard(items[i])]

\* `Show ${remainingItems.length} More`
showMore(k) == "Show " \o ToString(k) \o " More"

\* No click listener.
NoListener == [items |-> << >>, initialCount |-> 0, containerId |-> ""]

\* The document as the page's markup gives it: empty grids, buttons without
\* the expanded class and without listeners.
newDocument ==
  [grids |-> [g \in Grids |-> << >>],
   buttons |-> [b \in ExpandButtons |->
                  [display |-> "", text |-> "", expanded |-> FALSE,
                   listener |-> NoListener]]]

\* Nothing rendered yet.
NotShown == [b \in ExpandButtons |-> [items |-> << >>, initialCount |-> 0, clicks |-> 0]]

\* renderWithExpand(items, buildFunction, containerId, expandButtonId,
\* initialCount) on document d: nothing for no items; else the first
\* initialCount cards in the container, and the button either shown, labelled
\* and replaced by a clone of itself (which keeps its classes and has no
\* listeners) with a new click listener, or hidden.
renderWithExpand(d, items, containerId, expandButtonId, initialCount) ==
  IF items = Absent \/ Len(items) = 0
  THEN d
  ELSE LET initialItems == sliceTo(items, initialCount)
           remainingItems == sliceFrom(items, initialCount)
       IN [grids |-> [d.grids EXCEPT ![containerId] = markup(initialItems)],
           buttons |->
             IF Len(remainingItems) > 0
             THEN [d.buttons EXCEPT ![expandButtonId] =
                     [display |-> "flex", text |-> showMore(Len(remainingItems)),
                      expanded |-> @.expanded,
                      listener |-> [items |-> items, initialCount |-> initialCount,
                                    containerId |-> containerId]]]
             ELSE [d.buttons EXCEPT ![expandButtonId].display = "none"]]

\* The click listener that renderWithExpand adds to the button.
expandClicked(d, expandButtonId) ==
  LET l == d.buttons[expandButtonId].listener
      initialItems == sliceTo(l.items, l.initialCount)
      remainingItems == sliceFrom(l.items, l.initialCount)
  IN IF d.buttons[expandButtonId].expanded
     THEN [grids |-> [d.grids EXCEPT ![l.containerId] = markup(initialItems)],
           buttons |-> [d.buttons EXCEPT ![expandButtonId].expanded = FALSE,
                                         ![expandButtonId].text = showMore(Len(remainingItems))]]
     ELSE [grids |-> [d.grids EXCEPT ![l.containerId] = markup(l.items)],
           buttons |-> [d.buttons EXCEPT ![expandButtonId].expanded = TRUE,
                                         ![expandButtonId].text = "Show Less"]]

\* What is noted of a renderWithExpand of items for button expandButtonId.
rendered(sh, items, expandButtonId, initialCount) ==
  IF items = Absent \/ Len(items) = 0
  THEN sh
  ELSE [sh EXCEPT ![expandButtonId] =
          [items |-> items, initialCount |-> initialCount, clicks |-> 0]]

\* What is noted of a click on button expandButtonId: the clicks since the
\* last render are counted modulo 2.
clicked(sh, expandButtonId) ==
  [sh EXCEPT ![expandButtonId].clicks = (@ + 1) % 2]

(* ----------------------------- PortfolioApp ---------------------------- *)
\* The two categories of which the page shows one, by the theme.
ThemedCategories == {"webdev", "cyber"}

\* What the JSON document of a themed category may hold: lists of skills and
\* of projects longer than the grids show at first, with the projects not in
\* featured-first order; empty lists; no lists at all.
DocumentShapes == {"full", "empty", "bare"}

\* The skills and the projects of the document of category type.
documentContent(type, shape) ==
  CASE shape = "full" ->
         [skills |-> itemList(type, "skill", MaxItems),
          projects |-> itemList(type, "project", MaxItems - 1)]
    [] shape = "empty" -> [skills |-> << >>, projects |-> << >>]
    [] shape = "bare" -> [skills |-> Absent, projects |-> Absent]

\* The skills and the projects of the fallback data of category type: three
\* skills and one project, which is featured.
fallbackContent(type) ==
  [skills |-> itemList(type, "skill", 3),
   projects |-> <<[type |-> type, kind |-> "project", id |-> 1, featured |-> TRUE]>>]

\* The lists of payload object p as they were when the object was made.
pristine(p) ==
  IF p.kind = "fallback" THEN fallbackContent(p.type)
  ELSE documentContent(p.type, documents[p.type])

\* p.skills now.
skillsOf(p) == pristine(p).skills

\* p.projects now, given the arrays re that were put in another order.
projectsIn(re, p) == IF p \in DOMAIN re THEN re[p] ELSE pristine(p).projects

isFeatured(item) == item.featured

notFeatured(item) == ~item.featured

\* projects.sort((a, b) => ...) with the comparator of renderProjects: the
\* featured ones first, the order kept otherwise (the sort is stable).
featuredFirst(projects) == SelectSeq(projects, isFeatured) \o SelectSeq(projects, notFeatured)

\* new PortfolioApp()
newPortfolioApp == [data |-> << >>, isInitialized |-> FALSE, pc |-> "new"]

\* A page: the document, the reordered arrays, what was rendered.
thePage == [dom |-> dom, reordered |-> reordered, shown |-> shown]

\* renderSkills(skills) on page pg.
renderSkills(pg, skills) ==
  IF skills = Absent THEN pg
  ELSE [pg EXCEPT !.dom = renderWithExpand(@, skills, "skillsGrid", "expandSkills", 3),
                  !.shown = rendered(@, skills, "expandSkills", 3)]

\* renderProjects(p.projects) on page pg: the array is sorted where it is, and
\* rendered.
renderProjects(pg, p) ==
  LET projects == projectsIn(pg.reordered, p)
      sortedProjects == featuredFirst(projects)
  IN IF projects = Absent THEN pg
     ELSE [dom |-> renderWithExpand(pg.dom, sortedProjects, "projectsGrid", "expandProjects", 2),
           shown |-> rendered(pg.shown, sortedProjects, "expandProjects", 2),
           reordered |->
             IF sortedProjects = pristine(p).projects
             THEN [q \in DOMAIN pg.reordered \ {p} |-> pg.reordered[q]]
             ELSE [q \in DOMAIN pg.reordered \cup {p} |->
                     IF q = p THEN sortedProjects ELSE pg.reordered[q]]]

\* renderComponents(): the skills and the projects of the category of the
\* current theme.
renderComponents(pg, data, currentTheme) ==
  IF currentTheme = "dark"
  THEN renderProjects(renderSkills(pg, skillsOf(data["cyber"])), data["cyber"])
  ELSE renderProjects(renderSkills(pg, skillsOf(data["webdev"])), data["webdev"])

\* themeObserver calling loadAllData() before it renders.
themeObserver_Reloads(pg, data, theme) ==
  [page |-> IF theme = "dark"
            THEN renderProjects(renderSkills(pg, skillsOf(data["cyber"])), data["cyber"])
            ELSE renderProjects(renderSkills(pg, skillsOf(data["webdev"])), data["webdev"]),
   loads |-> 1]

\* The callback that setupThemeListener gives to addObserver, called with
\* theme: it renders from this.data and makes no call of the loader.
themeObserver(pg, data, theme) ==
  [page |-> IF theme = "dark"
            THEN renderProjects(renderSkills(pg, skillsOf(data["cyber"])), data["cyber"])
            ELSE renderProjects(renderSkills(pg, skillsOf(data["webdev"])), data["webdev"]),
   loads |-> 0]

(* ------------------------ PortfolioApp: the quotes --------------------- *)
\* The longest list of quotes.
MaxQuotes == 3
\* The retries of the loop of getNextQuote that are counted.
MaxTries == 2
\* The calls of getNextQuote in a behaviour.
MaxQuoteCalls == 3

\* this.data.quotes when the quotes are undefined.
NoQuotes == <<[text |-> "(undefined)", author |-> ""]>>

\* undefined, where a quote can be.
NoQuote == [text |-> "(undefined)", author |-> ""]

\* A list of len quotes, all different.
quoteList(len) == [i \in 1..len |-> [text |-> "quote " \o ToString(i), author |-> "author"]]

\* The lists this.data.quotes may be.
QuoteLists == {quoteList(len) : len \in 0..MaxQuotes} \cup {NoQuotes}

\* this.data.quotes[index]
quoteAt(quotes, index) == quotes[index + 1]

\* !this.data.quotes || this.data.quotes.length === 0
noQuotes(quotes) == quotes = NoQuotes \/ Len(quotes) = 0

\* The indices Math.floor(Math.random() * this.data.quotes.length) can be.
randomIndices(quotes) == 0..(Len(quotes) - 1)

\* The loop condition of getNextQuote without the comparison of the indices.
again_Never(nextIndex, currentQuoteIndex, quotes) == FALSE

\* The loop condition of getNextQuote.
again(nextIndex, currentQuoteIndex, quotes) ==
  nextIndex = currentQuoteIndex /\ Len(quotes) > 1

\* The quote rotation of a new PortfolioApp whose data.quotes is quotes:
\* currentQuoteIndex is 0, nothing is displayed, getNextQuote was not called.
newRotation(quotes) ==
  [quotes |-> quotes, currentQuoteIndex |-> 0, displayed |-> NoQuote,
   returned |-> NoQuote, pc |-> "new", tries |-> 0, calls |-> 0, by |-> ""]

(* --------------------------------- Utils ------------------------------- *)
\* wait, in ticks of the clock.
wait == 2
\* The calls of the debounced function in a behaviour.
MaxCalls == 3
\* The instant after which no call is made.
MaxTime == 5

\* The arguments the debounced function is called with.
Arguments == {"a", "b"}

\* The function Utils.debounce(func, wait) returns, not called yet: timeout is
\* undefined (0), no timer is pending, func was not invoked.  Beside timeout
\* and the pending timers (each with the arguments its closure later holds)
\* it keeps the clock, the latest call, the number of calls, the invocations
\* of func (log) and those since the latest call, and of the calls after the
\* first how many came more than wait after the call before them (with the
\* first: bursts) and how many exactly wait after it (ties).
newDebounced ==
  [now |-> 0, timeout |-> 0, timers |-> {}, lastCall |-> [at |-> 0, args |-> ""],
   calls |-> 0, log |-> << >>, sinceCall |-> 0, bursts |-> 0, ties |-> 0]

\* executedFunction(...args) without its clearTimeout(timeout).
executedFunction_NoClear(d, args) ==
  [d EXCEPT !.timers = @ \cup {[id |-> d.calls + 1, due |-> d.now + wait, args |-> args]},
            !.timeout = d.calls + 1]

\* executedFunction(...args): clearTimeout(timeout), then
\* timeout = setTimeout(later, wait); func is not invoked.
executedFunction(d, args) ==
  [d EXCEPT !.timers = {t \in @ : t.id # d.timeout}
                         \cup {[id |-> d.calls + 1, due |-> d.now + wait, args |-> args]},
            !.timeout = d.calls + 1]

\* later(), run by timer t: clearTimeout(timeout), then func(...args) with the
\* arguments of the call that set the timer.
later(d, t) ==
  [d EXCEPT !.timers = {u \in @ : u.id # t.id /\ u.id # d.timeout},
            !.log = Append(@, [at |-> d.now, args |-> t.args])]

(* ------------------------------ DataLoader ----------------------------- *)
\* isFresh with the timestamp compared in place of the age.
isFresh_ByTimestamp(cached) == cached.timestamp < cacheExpiry

\* isFresh with <= in place of <.
isFresh_Inclusive(cached) == now - cached.timestamp <= cacheExpiry

\* Date.now() - cached.timestamp < this.cacheExpiry
isFresh(cached) == now - cached.timestamp < cacheExpiry

\* The cache check of loadData: has(cacheKey) and the entry is not expired.
cacheHit(type) ==
  /\ cacheKey(type) \in DOMAIN cache
  /\ isFresh(cache[cacheKey(type)])

\* fallbackFor with the fallback looked up under the cache key.
fallbackFor_ByCacheKey(type) ==
  LET v == IF cacheKey(type) \in DOMAIN fallbackData THEN fallbackData[cacheKey(type)]
           ELSE Undefined
  IN IF v = Undefined THEN EmptyObject ELSE v

\* this.fallbackData[type] || {}
fallbackFor(type) ==
  LET v == IF type \in DOMAIN fallbackData THEN fallbackData[type] ELSE Undefined
  IN IF v = Undefined THEN EmptyObject ELSE v

\* cacheSet with the timestamp of the construction of the loader.
cacheSet_ConstructionTime(c, key, data) ==
  [k \in DOMAIN c \cup {key} |->
     IF k = key THEN [data |-> data, timestamp |-> 0] ELSE c[k]]

\* this.cache.set(cacheKey, { data, timestamp: Date.now() })
cacheSet(c, key, data) ==
  [k \in DOMAIN c \cup {key} |->
     IF k = key THEN [data |-> data, timestamp |-> now] ELSE c[k]]

\* catchFetchError with the error thrown on to the caller.
catchFetchError_Rethrows(call) ==
  [call |-> [call EXCEPT !.pc = "done", !.settled = "rejected", !.outcome = "failed"],
   cache |-> cache]

\* catchFetchError with the fallback put in the cache.
catchFetchError_CachesFallback(call) ==
  [call |-> [call EXCEPT !.pc = "done", !.settled = "fulfilled", !.outcome = "failed",
                         !.value = fallbackData[call.type]],
   cache |-> cacheSet(cache, cacheKey(call.type), fallbackData[call.type])]

\* The catch block of loadData: the invocation is fulfilled with the fallback
\* and the cache is not touched.
catchFetchError(call) ==
  [call |-> [call EXCEPT !.pc = "done", !.settled = "fulfilled", !.outcome = "failed",
                         !.value = fallbackFor(call.type)],
   cache |-> cache]

\* storeAndReturn without the cache.set.
storeAndReturn_NoCacheSet(call, data) ==
  [call |-> [call EXCEPT !.pc = "done", !.settled = "fulfilled", !.outcome = "live",
                         !.value = data],
   cache |-> cache]

\* The end of the try block of loadData, once response.json() has resolved
\* with data: the data is cached and returned.
storeAndReturn(call, data) ==
  [call |-> [call EXCEPT !.pc = "done", !.settled = "fulfilled", !.outcome = "live",
                         !.value = data],
   cache |-> cacheSet(cache, cacheKey(call.type), data)]

\* The synchronous part of loadData(type), up to its first await or its return.
\* id is the number under which the invocation is entered in calls if it has
\* to be, f the number of the fetch it issues if it issues one.
startLoadData(type, id, f, owner) ==
  LET key == cacheKey(type)
      base == [id |-> id, type |-> type, owner |-> owner, early |-> now < cacheExpiry,
               age |-> IF key \in DOMAIN cache THEN now - cache[key].timestamp ELSE -1,
               held |-> IF key \in DOMAIN cache THEN cache[key].data ELSE NoValue,
               storedFetch |-> lastStore[type].fetch,
               storedAge |-> IF lastStore[type].fetch = 0 THEN -1
                             ELSE now - lastStore[type].at,
               prev |-> IF last.type = type THEN last.outcome ELSE "none",
               prevValue |-> IF last.type = type THEN last.value ELSE NoValue]
  IN IF cacheHit(type)
     THEN base @@ [fetch |-> 0, pc |-> "done", settled |-> "fulfilled",
                   outcome |-> "hit", value |-> cache[key].data]
     ELSE base @@ [fetch |-> f, pc |-> "fetch", settled |-> "pending",
                   outcome |-> "pending", value |-> NoValue]

\* The calls held after invocation c took a step: a settled invocation made
\* directly is dropped (its caller has the result), one made by loadAllData
\* is kept for Promise.all.
hold(c) ==
  IF c.pc = "done" /\ c.owner = 0
  THEN [k \in DOMAIN calls \ {c.id} |-> calls[k]]
  ELSE [k \in DOMAIN calls \cup {c.id} |-> IF k = c.id THEN c ELSE calls[k]]

\* The value of last after invocation c took a step.
noted(c) == IF c.pc = "done" /\ c.owner = 0 THEN c ELSE last

\* The value of lastStore after invocation c took a step.
stored(c) ==
  IF c.outcome = "live"
  THEN [lastStore EXCEPT ![c.type] = [fetch |-> c.fetch, at |-> now]]
  ELSE lastStore

\* new DataLoader()
InitLoader ==
  /\ cache = << >>
  /\ now = 0
  /\ calls = << >>
  /\ alls = << >>
  /\ serial = 0
  /\ fetchCount = 0
  /\ last = NoCall
  /\ lastStore = [t \in Categories |-> [fetch |-> 0, at |-> 0]]
  /\ mustRefetch = {}

\* The loader alone, in a browser with an empty localStorage and a light
\* system colour scheme, the page not loaded.
Init ==
  /\ InitLoader
  /\ themeManager = newThemeManager
  /\ body = NoAttribute
  /\ localStorage = << >>
  /\ prefersDark = FALSE
  /\ seen = NotSeen
  /\ trail = << >>
  /\ dom = newDocument
  /\ shown = NotShown
  /\ app = newPortfolioApp
  /\ documents = [t \in ThemedCategories |-> "full"]
  /\ reordered = << >>
  /\ rotation = newRotation(quoteList(MaxQuotes))
  /\ debounced = newDebounced

\* loadData(type), called directly.
LoadData(type) ==
  LET c == startLoadData(type, serial + 1, fetchCount + 1, 0)
  IN /\ cacheHit(type) \/ fetchCount < MaxFetches
     /\ serial' = IF c.pc = "done" THEN serial ELSE serial + 1
     /\ fetchCount' = IF c.fetch = 0 THEN fetchCount ELSE fetchCount + 1
     /\ calls' = hold(c)
     /\ last' = c
     /\ mustRefetch' = mustRefetch \ {type}
     /\ UNCHANGED <<cache, now, alls, lastStore>>

\* The promise of fetch(`data/${type}.json`) settles: it rejects (network error),
\* or resolves with a response whose ok is false (the code throws), or with one
\* whose ok is true (the code goes on to await response.json()).
FetchSettles(k, response) ==
  /\ k \in DOMAIN calls
  /\ calls[k].pc = "fetch"
  /\ LET r == IF response = "ok"
              THEN [call |-> [calls[k] EXCEPT !.pc = "json"], cache |-> cache]
              ELSE catchFetchError(calls[k])
     IN /\ cache' = r.cache
        /\ calls' = hold(r.call)
        /\ last' = noted(r.call)
  /\ UNCHANGED <<now, alls, serial, fetchCount, lastStore, mustRefetch>>

\* The promise of response.json() settles: it resolves with the parsed body,
\* or rejects (the body is not valid JSON).
JsonSettles(k, parsed) ==
  /\ k \in DOMAIN calls
  /\ calls[k].pc = "json"
  /\ LET r == IF parsed = "parsed"
              THEN storeAndReturn(calls[k], parsedBody(calls[k].type, calls[k].fetch))
              ELSE catchFetchError(calls[k])
     IN /\ cache' = r.cache
        /\ calls' = hold(r.call)
        /\ last' = noted(r.call)
        /\ lastStore' = stored(r.call)
  /\ UNCHANGED <<now, alls, serial, fetchCount, mustRefetch>>

\* this.cache.clear()
cacheClear(c) == << >>

\* clearCache()
ClearCache ==
  /\ cache' = cacheClear(cache)
  /\ lastStore' = [t \in Categories |-> [fetch |-> 0, at |-> 0]]
  /\ last' = NoCall
  /\ mustRefetch' = mustRefetch \cup {t \in Categories : cacheKey(t) \in DOMAIN cache}
  /\ UNCHANGED <<now, calls, alls, serial, fetchCount>>
  /\ UNCHANGED pageVars

\* Math.round(x / 1000) for x >= 0
roundSeconds(x) == (x + 500) \div 1000

\* getCacheStatus()
getCacheStatus ==
  [key \in DOMAIN cache |->
     LET age == now - cache[key].timestamp
     IN [cached |-> TRUE, age |-> roundSeconds(age), expired |-> age > cacheExpiry]]

\* Time passes.
Tick ==
  /\ \E t \in Instants : t > now /\ now' = t
  /\ UNCHANGED <<cache, calls, alls, serial, fetchCount, last, lastStore, mustRefetch>>
  /\ UNCHANGED pageVars

\* promiseAll settling as soon as one of the promises is fulfilled.
promiseAll_Any(ids) ==
  IF \E i \in DOMAIN ids : calls[ids[i]].settled = "fulfilled"
  THEN [settled |-> "fulfilled", values |-> [i \in DOMAIN ids |-> calls[ids[i]].value]]
  ELSE [settled |-> "pending", values |-> << >>]

\* Promise.all over the promises of the invocations ids: rejected as soon as one
\* of them is rejected, fulfilled with their values, in order, once all are
\* fulfilled, pending until then.
promiseAll(ids) ==
  IF \E i \in DOMAIN ids : calls[ids[i]].settled = "rejected"
  THEN [settled |-> "rejected", values |-> << >>]
  ELSE IF \A i \in DOMAIN ids : calls[ids[i]].settled = "fulfilled"
  THEN [settled |-> "fulfilled", values |-> [i \in DOMAIN ids |-> calls[ids[i]].value]]
  ELSE [settled |-> "pending", values |-> << >>]

\* aggregate with webdev and cyber taken in the other order from the array.
aggregate_Swapped(values) ==
  [t \in Categories |->
     values[CHOOSE i \in DOMAIN Types :
              Types[i] = (IF t = "webdev" THEN "cyber" ELSE IF t = "cyber" THEN "webdev" ELSE t)]]

\* const [user, webdev, cyber, books, interests, quotes] = ...;
\* return { user, webdev, cyber, books, interests, quotes };
aggregate(values) ==
  [t \in Categories |-> values[CHOOSE i \in DOMAIN Types : Types[i] = t]]

\* The fetch() calls that the first i invocations of a loadAllData issue.
missesUpTo(i) == Cardinality({j \in 1..i : ~cacheHit(Types[j])})

\* loadAllData(), up to its await: the six loadData invocations are made one
\* after the other, each up to its own first await.  The page makes a new
\* invocation only when the one before has returned.
LoadAllData ==
  LET a == Len(alls) + 1
      made == [i \in DOMAIN Types |->
                 startLoadData(Types[i], serial + i, fetchCount + missesUpTo(i), a)]
  IN /\ Len(alls) < MaxLoadAll
     /\ \A b \in DOMAIN alls : alls[b].pc = "done"
     /\ calls' = [k \in DOMAIN calls \cup {serial + i : i \in DOMAIN Types} |->
                    IF k > serial THEN made[k - serial] ELSE calls[k]]
     /\ alls' = Append(alls, [ids |-> [i \in DOMAIN Types |-> serial + i],
                              pc |-> "await", settled |-> "pending", value |-> << >>])
     /\ serial' = serial + Len(Types)
     /\ fetchCount' = fetchCount + missesUpTo(Len(Types))
     /\ mustRefetch' = {}
     /\ UNCHANGED <<cache, now, last, lastStore>>

\* The await of loadAllData ends: with the six values, or in its catch block.
LoadAllSettles(a) ==
  /\ a \in DOMAIN alls
  /\ alls[a].pc = "await"
  /\ LET p == promiseAll(alls[a].ids)
     IN /\ p.settled # "pending"
        /\ alls' = [alls EXCEPT ![a] =
             [@ EXCEPT !.pc = "done", !.settled = "fulfilled",
                       !.value = IF p.settled = "fulfilled" THEN aggregate(p.values)
                                 ELSE fallbackData]]
  /\ UNCHANGED <<cache, now, calls, serial, fetchCount, last, lastStore, mustRefetch>>

\* A direct loadData for some category.
LoadDataCalled ==
  /\ \E type \in Categories : LoadData(type)
  /\ UNCHANGED pageVars

\* Some pending fetch settles, in one of the three ways.
FetchSettled ==
  /\ \E k \in DOMAIN calls, response \in {"error", "notok", "ok"} : FetchSettles(k, response)
  /\ UNCHANGED pageVars

\* Some pending response.json() settles, in one of the two ways.
JsonSettled ==
  /\ \E k \in DOMAIN calls, parsed \in {"parsed", "malformed"} : JsonSettles(k, parsed)
  /\ UNCHANGED pageVars

\* Some loadAllData returns.
LoadAllSettled ==
  /\ \E a \in DOMAIN alls : LoadAllSettles(a)
  /\ UNCHANGED pageVars

\* loadAllData(), called with the page left alone.
LoadAllDataCalled ==
  /\ LoadAllData
  /\ UNCHANGED pageVars

Next ==
  \/ LoadDataCalled
  \/ FetchSettled
  \/ JsonSettled
  \/ ClearCache
  \/ Tick

\* The loader used one category at a time.
Spec == Init /\ [][Next]_vars

NextAll ==
  \/ LoadAllDataCalled
  \/ FetchSettled
  \/ JsonSettled
  \/ LoadAllSettled

\* The loader used as the page uses it: through loadAllData.
SpecAll == Init /\ [][NextAll]_vars

(* ------------------------- ThemeManager: events ------------------------ *)
\* The page is loaded: new ThemeManager(), then init(): loadTheme(), the click
\* listener of the toggle button, the change listener of the media query.
ThemeManagerInit(ok) ==
  LET r == loadTheme(newThemeManager, prefersDark, ok, Throwing)
  IN /\ themeManager' = r.themeManager
     /\ body' = r.body
     /\ localStorage' = r.localStorage
     /\ seen' = [applied(r, "load", ok) EXCEPT
                   !.loaded = TRUE,
                   !.saved = storageGet(storageKey),
                   !.manual = truthy(storageGet(storageKey)),
                   !.from = "",
                   !.notified = << >>]
     /\ UNCHANGED prefersDark

\* The themes the page had before each of the toggles made in a row, the
\* latest two of them, after one more toggle.
toggledFrom ==
  LET all == Append(trail, themeManager.currentTheme)
  IN IF Len(all) > 2 THEN Tail(all) ELSE all

\* A click on the toggle button: toggleTheme().
ToggleClick(ok) ==
  LET r == toggleTheme(themeManager, ok, Throwing)
  IN /\ seen.loaded
     /\ themeManager' = r.themeManager
     /\ body' = r.body
     /\ localStorage' = r.localStorage
     /\ seen' = [applied(r, "toggle", ok) EXCEPT !.manual = TRUE]
     /\ UNCHANGED prefersDark

\* applyTheme(theme), called directly.
ApplyTheme(theme, ok) ==
  LET r == applyTheme(themeManager, theme, ok, Throwing)
  IN /\ seen.loaded
     /\ themeManager' = r.themeManager
     /\ body' = r.body
     /\ localStorage' = r.localStorage
     /\ seen' = [applied(r, "apply", ok) EXCEPT !.manual = TRUE]
     /\ UNCHANGED prefersDark

\* The system colour scheme changes and the change listener of the media
\* query runs: it applies the system's theme if storage holds no saved theme.
SystemThemeChange(ok) ==
  LET matches == ~prefersDark
      savedTheme == storageGet(storageKey)
      r == applyTheme(themeManager, IF matches THEN "dark" ELSE "light", ok, Throwing)
  IN /\ seen.loaded
     /\ prefersDark' = matches
     /\ IF ~truthy(savedTheme)
        THEN /\ themeManager' = r.themeManager
             /\ body' = r.body
             /\ localStorage' = r.localStorage
             /\ seen' = applied(r, "system", ok)
        ELSE /\ seen' = [seen EXCEPT !.event = "system", !.from = themeManager.currentTheme]
             /\ UNCHANGED <<themeManager, body, localStorage>>

\* addObserver(callback)
AddObserver(callback) ==
  /\ seen.loaded
  /\ Len(themeManager.observers) < MaxObservers
  /\ themeManager' = addObserver(themeManager, callback)
  /\ seen' = [seen EXCEPT !.event = "add"]
  /\ UNCHANGED <<body, localStorage, prefersDark>>

\* removeObserver(callback)
RemoveObserver(callback) ==
  /\ seen.loaded
  /\ themeManager' = removeObserver(themeManager, callback)
  /\ seen' = [seen EXCEPT !.event = "remove"]
  /\ UNCHANGED <<body, localStorage, prefersDark>>

\* The page is loaded or loaded again, with the storage write succeeding or not.
PageLoad ==
  /\ \E ok \in BOOLEAN : ThemeManagerInit(ok)
  /\ trail' = << >>
  /\ UNCHANGED <<loaderVars, dom, shown, appVars, otherVars>>

\* A click on the toggle button.
ToggleClicked ==
  /\ \E ok \in BOOLEAN : ToggleClick(ok)
  /\ trail' = toggledFrom
  /\ UNCHANGED <<loaderVars, dom, shown, appVars, otherVars>>

\* A direct applyTheme of one of the two themes.
ApplyThemeCalled ==
  /\ \E theme \in Themes, ok \in BOOLEAN : ApplyTheme(theme, ok)
  /\ trail' = << >>
  /\ UNCHANGED <<loaderVars, dom, shown, appVars, otherVars>>

\* A change of the system colour scheme.
SystemThemeChanged ==
  /\ \E ok \in BOOLEAN : SystemThemeChange(ok)
  /\ trail' = << >>
  /\ UNCHANGED <<loaderVars, dom, shown, appVars, otherVars>>

\* Some callback is registered.
ObserverAdded ==
  /\ \E callback \in Callbacks : AddObserver(callback)
  /\ trail' = << >>
  /\ UNCHANGED <<loaderVars, dom, shown, appVars, otherVars>>

\* Some callback is removed.
ObserverRemoved ==
  /\ \E callback \in Callbacks : RemoveObserver(callback)
  /\ trail' = << >>
  /\ UNCHANGED <<loaderVars, dom, shown, appVars, otherVars>>

\* A browser with some item or none under the storage key and one of the two
\* system colour schemes, the page not loaded.
InitTheme ==
  /\ InitLoader
  /\ themeManager = newThemeManager
  /\ body = NoAttribute
  /\ localStorage \in StartStorages
  /\ prefersDark \in BOOLEAN
  /\ seen = NotSeen
  /\ trail = << >>
  /\ dom = newDocument
  /\ shown = NotShown
  /\ app = newPortfolioApp
  /\ documents = [t \in ThemedCategories |-> "full"]
  /\ reordered = << >>
  /\ rotation = newRotation(quoteList(MaxQuotes))
  /\ debounced = newDebounced

NextTheme ==
  \/ PageLoad
  \/ ToggleClicked
  \/ ApplyThemeCalled
  \/ SystemThemeChanged
  \/ ObserverAdded
  \/ ObserverRemoved

\* The theme manager alone.
SpecTheme == InitTheme /\ [][NextTheme]_vars

(* -------------------------- Components: events ------------------------- *)
\* renderWithExpand is called for the skills grid with a list of at most
\* MaxItems items of one of the two themed categories, or without a list, and
\* an initial count of 2 or 3.
RenderWithExpand(items, initialCount) ==
  /\ dom' = renderWithExpand(dom, items, "skillsGrid", "expandSkills", initialCount)
  /\ shown' = rendered(shown, items, "expandSkills", initialCount)
  /\ UNCHANGED <<loaderVars, themeVars, trail, appVars, otherVars>>

\* A click on an expand button that is displayed and has a click listener.
ExpandClick(expandButtonId) ==
  /\ dom.buttons[expandButtonId].display = "flex"
  /\ dom.buttons[expandButtonId].listener # NoListener
  /\ dom' = expandClicked(dom, expandButtonId)
  /\ shown' = clicked(shown, expandButtonId)

\* Some call of renderWithExpand.
Rendered ==
  \E type \in {"webdev", "cyber"}, len \in 0..MaxItems, initialCount \in {2, 3} :
    \/ RenderWithExpand(itemList(type, "skill", len), initialCount)
    \/ RenderWithExpand(Absent, initialCount)

\* A click on some expand button, the rest of the page left alone.
ExpandClicked ==
  /\ \E expandButtonId \in ExpandButtons : ExpandClick(expandButtonId)
  /\ UNCHANGED <<loaderVars, themeVars, trail, appVars, otherVars>>

NextExpand ==
  \/ Rendered
  \/ ExpandClicked

\* renderWithExpand and its expand button alone.
SpecExpand == Init /\ [][NextExpand]_vars

(* ------------------------- PortfolioApp: events ------------------------ *)
\* init() with setupThemeListener() called before loadData() is awaited.
AppInit_ListensFirst(ok) ==
  /\ app.pc = "new"
  /\ LET r == loadTheme(newThemeManager, prefersDark, ok, Throwing)
     IN /\ themeManager' = addObserver(r.themeManager, "render")
        /\ body' = r.body
        /\ localStorage' = r.localStorage
        /\ seen' = [applied(r, "load", ok) EXCEPT
                      !.loaded = TRUE,
                      !.saved = storageGet(storageKey),
                      !.manual = truthy(storageGet(storageKey)),
                      !.from = "",
                      !.notified = << >>]
        /\ UNCHANGED prefersDark
  /\ LoadAllData
  /\ app' = [app EXCEPT !.pc = "loading"]
  /\ UNCHANGED <<trail, dom, shown, documents, reordered, otherVars>>

\* DOMContentLoaded: new PortfolioApp() and init() up to its await:
\* themeManager.init(), then loadData(), which calls loadAllData().
AppInit(ok) ==
  /\ app.pc = "new"
  /\ ThemeManagerInit(ok)
  /\ LoadAllData
  /\ app' = [app EXCEPT !.pc = "loading"]
  /\ UNCHANGED <<trail, dom, shown, documents, reordered, otherVars>>

\* init() goes on when loadAllData() has returned: this.data is set, the
\* components are rendered, the theme observer is registered, isInitialized
\* is set.
AppInitResumes ==
  /\ app.pc = "loading"
  /\ alls[Len(alls)].pc = "done"
  /\ LET data == alls[Len(alls)].value
         pg == renderComponents(thePage, data, themeManager.currentTheme)
     IN /\ app' = [data |-> data, isInitialized |-> TRUE, pc |-> "ready"]
        /\ dom' = pg.dom
        /\ shown' = pg.shown
        /\ reordered' = pg.reordered
  /\ themeManager' = addObserver(themeManager, "render")
  /\ seen' = [seen EXCEPT !.event = "ready"]
  /\ UNCHANGED <<loaderVars, body, localStorage, prefersDark, trail, documents, otherVars>>

\* The theme observer, if it is registered, runs in a notification of theme;
\* if this.data has no cyber or no webdev, reading its skills throws, which
\* notifyObservers catches, and nothing is rendered.
Notified(theme) ==
  IF /\ \E i \in DOMAIN themeManager.observers : themeManager.observers[i] = "render"
     /\ ThemedCategories \subseteq DOMAIN app.data
  THEN LET r == themeObserver(thePage, app.data, theme)
       IN /\ dom' = r.page.dom
          /\ shown' = r.page.shown
          /\ reordered' = r.page.reordered
          /\ IF r.loads > 0 THEN LoadAllData ELSE UNCHANGED loaderVars
  ELSE UNCHANGED <<loaderVars, dom, shown, reordered>>

\* A click on the toggle button of the page.
AppToggleClick(ok) ==
  /\ ToggleClick(ok)
  /\ Notified(newTheme(themeManager.currentTheme))
  /\ UNCHANGED <<trail, app, documents, otherVars>>

\* A change of the system colour scheme with the page loaded.
AppSystemThemeChange(ok) ==
  /\ SystemThemeChange(ok)
  /\ IF truthy(storageGet(storageKey))
     THEN UNCHANGED <<loaderVars, dom, shown, reordered>>
     ELSE Notified(IF prefersDark THEN "light" ELSE "dark")
  /\ UNCHANGED <<trail, app, documents, otherVars>>

\* The page is loaded, in a browser whose localStorage can be written or in
\* one whose localStorage cannot.
AppLoaded == \E ok \in BOOLEAN : AppInit(ok)

\* A click on the toggle button; the storage write goes as the one of the
\* page load went.
AppToggleClicked == AppToggleClick(seen.written = "ok")

\* A change of the system colour scheme; a storage write goes as the one of
\* the page load went.
AppSystemThemeChanged == AppSystemThemeChange(seen.written # "failed")

\* The responses to the six requests of loadAllData arrive in the order of
\* the requests: the steps of different invocations of loadData for different
\* categories commute with each other and with the events of the page.
inOrder(k) == \A j \in DOMAIN calls : j < k => calls[j].pc = "done"

\* The fetch that is next in the order settles.
AppFetchSettled ==
  /\ \E k \in DOMAIN calls, response \in {"error", "notok", "ok"} :
       inOrder(k) /\ FetchSettles(k, response)
  /\ UNCHANGED pageVars

\* The response.json() that is next in the order settles.
AppJsonSettled ==
  /\ \E k \in DOMAIN calls, parsed \in {"parsed", "malformed"} :
       inOrder(k) /\ JsonSettles(k, parsed)
  /\ UNCHANGED pageVars

\* A browser with an empty localStorage and one of the two system colour
\* schemes, a server with one of the documents for each themed category, the
\* page not loaded.
InitApp ==
  /\ InitLoader
  /\ themeManager = newThemeManager
  /\ body = NoAttribute
  /\ localStorage = << >>
  /\ prefersDark \in BOOLEAN
  /\ seen = NotSeen
  /\ trail = << >>
  /\ dom = newDocument
  /\ shown = NotShown
  /\ app = newPortfolioApp
  /\ documents \in [ThemedCategories -> DocumentShapes]
  /\ reordered = << >>
  /\ rotation = newRotation(quoteList(MaxQuotes))
  /\ debounced = newDebounced

NextApp ==
  \/ AppLoaded
  \/ AppFetchSettled
  \/ AppJsonSettled
  \/ LoadAllSettled
  \/ AppInitResumes
  \/ AppToggleClicked
  \/ AppSystemThemeChanged
  \/ ExpandClicked

\* The page: the app with its theme manager, its loader and its grids.
SpecApp == InitApp /\ [][NextApp]_vars

(* ---------------------- PortfolioApp: quote events --------------------- *)
\* renderInitialQuote() and initializeQuoteRotation(): the first quote is
\* displayed if there is one, the click listener and the interval are set up.
RenderInitialQuote ==
  /\ rotation.pc = "new"
  /\ rotation' = [rotation EXCEPT
       !.pc = "idle",
       !.displayed = IF noQuotes(rotation.quotes) THEN @
                     ELSE quoteAt(rotation.quotes, 0)]
  /\ UNCHANGED <<loaderVars, themeVars, domVars, appVars, debounced>>

\* A click on quoteRefresh, or the interval firing: getNextQuote() is called.
\* Without quotes it returns undefined and nothing is displayed; else it enters
\* its loop.
GetNextQuote(by) ==
  /\ rotation.pc = "idle"
  /\ rotation.calls < MaxQuoteCalls
  /\ rotation' =
       IF noQuotes(rotation.quotes)
       THEN [rotation EXCEPT !.calls = @ + 1, !.by = by, !.returned = NoQuote]
       ELSE [rotation EXCEPT !.calls = @ + 1, !.by = by, !.pc = "loop", !.tries = 0]
  /\ UNCHANGED <<loaderVars, themeVars, domVars, appVars, debounced>>

\* One pass of the loop of getNextQuote that is followed by another: the index
\* drawn is the current one and there are two quotes or more.
DrawAgain ==
  /\ rotation.pc = "loop"
  /\ \E nextIndex \in randomIndices(rotation.quotes) :
       /\ again(nextIndex, rotation.currentQuoteIndex, rotation.quotes)
       /\ rotation' = [rotation EXCEPT
            !.tries = IF @ < MaxTries THEN @ + 1 ELSE @]
  /\ UNCHANGED <<loaderVars, themeVars, domVars, appVars, debounced>>

\* The last pass of the loop of getNextQuote: the index drawn becomes
\* currentQuoteIndex, the quote at it is returned, and the caller displays it.
DrawAndReturn ==
  /\ rotation.pc = "loop"
  /\ \E nextIndex \in randomIndices(rotation.quotes) :
       /\ ~again(nextIndex, rotation.currentQuoteIndex, rotation.quotes)
       /\ rotation' = [rotation EXCEPT
            !.pc = "idle",
            !.currentQuoteIndex = nextIndex,
            !.returned = quoteAt(rotation.quotes, nextIndex),
            !.displayed = quoteAt(rotation.quotes, nextIndex)]
  /\ UNCHANGED <<loaderVars, themeVars, domVars, appVars, debounced>>

\* getNextQuote() is called, by a click or by the interval.
GetNextQuoteCalled == \E by \in {"click", "interval"} : GetNextQuote(by)

\* A PortfolioApp whose data.quotes is one of the lists, or undefined.
InitQuote ==
  /\ InitLoader
  /\ themeManager = newThemeManager
  /\ body = NoAttribute
  /\ localStorage = << >>
  /\ prefersDark = FALSE
  /\ seen = NotSeen
  /\ trail = << >>
  /\ dom = newDocument
  /\ shown = NotShown
  /\ app = newPortfolioApp
  /\ documents = [t \in ThemedCategories |-> "full"]
  /\ reordered = << >>
  /\ \E quotes \in QuoteLists : rotation = newRotation(quotes)
  /\ debounced = newDebounced

NextQuote ==
  \/ RenderInitialQuote
  \/ GetNextQuoteCalled
  \/ DrawAgain
  \/ DrawAndReturn

\* The quote rotation alone.
SpecQuote == InitQuote /\ [][NextQuote]_vars

\* The quote rotation with a fair Math.random(): in a loop that goes on and
\* on, an index other than the current one is drawn at some pass.
SpecQuoteFair == SpecQuote /\ WF_vars(DrawAndReturn)

(* ----------------------------- Utils: events --------------------------- *)
\* The debounced function is called with args.
DebouncedCall(args) ==
  /\ debounced.calls < MaxCalls
  /\ debounced.now <= MaxTime
  /\ LET gap == debounced.now - debounced.lastCall.at
         first == debounced.calls = 0
     IN debounced' = [executedFunction(debounced, args) EXCEPT
          !.calls = @ + 1,
          !.lastCall = [at |-> debounced.now, args |-> args],
          !.sinceCall = 0,
          !.bursts = IF first \/ gap > wait THEN @ + 1 ELSE @,
          !.ties = IF ~first /\ gap = wait THEN @ + 1 ELSE @]
  /\ UNCHANGED <<loaderVars, themeVars, domVars, appVars, rotation>>

\* A pending timer whose delay has passed runs its callback.
TimerFires ==
  /\ \E t \in debounced.timers :
       /\ t.due <= debounced.now
       /\ debounced' = [later(debounced, t) EXCEPT !.sinceCall = @ + 1]
  /\ UNCHANGED <<loaderVars, themeVars, domVars, appVars, rotation>>

\* The clock advances by one tick; a timer runs when its delay has passed,
\* before the clock goes on.
ClockTick ==
  /\ debounced.now < MaxTime + wait
  /\ \A t \in debounced.timers : t.due > debounced.now
  /\ debounced' = [debounced EXCEPT !.now = @ + 1]
  /\ UNCHANGED <<loaderVars, themeVars, domVars, appVars, rotation>>

\* The debounced function is called with some arguments.
DebouncedCalled == \E args \in Arguments : DebouncedCall(args)

NextDebounce ==
  \/ DebouncedCalled
  \/ TimerFires
  \/ ClockTick

\* A debounced function alone.
SpecDebounce == Init /\ [][NextDebounce]_vars

\* A debounced function whose timers run and whose clock goes on.
SpecDebounceFair == SpecDebounce /\ WF_vars(TimerFires) /\ WF_vars(ClockTick)

(* ------------------------------- claims -------------------------------- *)
\* The invocations the state knows: the pending or held ones and the one noted last.
Known == {calls[k] : k \in DOMAIN calls} \cup (IF last.type \in Categories THEN {last} ELSE {})

\* In this step a direct loadData(t) is called.
Called(t) == last' # last /\ last'.type = t /\ last'.outcome \in {"pending", "hit"}

\* In this step a direct loadData returns after its fetch or its parse failed.
FailedNow == last' # last /\ last'.outcome = "failed"

\* In this step a direct loadData returns the body it fetched.
StoredNow == last' # last /\ last'.outcome = "live"

\* What the claims allow loadData to resolve with: the payload it fetched, the
\* payload the cache held for its type when it was called, the fallback payload.
Resolutions(c) ==
  {fallbackData[c.type]}
    \cup (IF c.fetch # 0 THEN {parsedBody(c.type, c.fetch)} ELSE {})
    \cup (IF c.held # NoValue THEN {c.held} ELSE {})

\* C1: loadData(c) never rejects, whatever the fetch does: it is fulfilled with
\* the payload just fetched, the payload the cache held for c, or the fallback
\* payload of c.
C1_NeverRejects ==
  \A c \in Known :
    /\ c.settled # "rejected"
    /\ c.pc = "done" => c.settled = "fulfilled" /\ c.value \in Resolutions(c)

\* C1 witness: a loadData returned after its fetch failed.
C1_Witness ==
  last.pc = "done" /\ last.outcome = "failed" /\ last.settled = "fulfilled"

\* The invocations of loadAllData number a, in the order of Types.
Inner(a) == [i \in DOMAIN Types |-> calls[alls[a].ids[i]]]

\* C2: loadAllData() is fulfilled with an object that has all six keys; a key
\* whose loadData succeeded holds the live or the cached payload, a key whose
\* fetch failed holds the fallback payload of that same category.
C2_AllSixKeys ==
  \A a \in DOMAIN alls :
    alls[a].pc = "done" =>
      /\ alls[a].settled = "fulfilled"
      /\ DOMAIN alls[a].value = Categories
      /\ \A i \in DOMAIN Types :
           LET c == Inner(a)[i]
               v == alls[a].value[Types[i]]
           IN /\ c.outcome \in {"hit", "live", "failed"}
              /\ c.outcome = "failed" => v = fallbackData[Types[i]]
              /\ c.outcome = "live" => v = parsedBody(Types[i], c.fetch)
              /\ c.outcome = "hit" => v = c.held /\ v.kind = "live" /\ v.type = Types[i]

\* C2 witness: a loadAllData returned with exactly one of the six fetches failed
\* and the five others live.
C2_Witness ==
  \E a \in DOMAIN alls :
    /\ alls[a].pc = "done"
    /\ Cardinality({i \in DOMAIN Types : Inner(a)[i].outcome = "failed"}) = 1
    /\ Cardinality({i \in DOMAIN Types : Inner(a)[i].outcome = "live"}) = 5

\* C3 as stated, for two calls of which the first has returned when the second
\* is made, both made before the first expiry window has passed and with no
\* clearCache() between them: the two calls issue at most one fetch in total
\* and the second returns the payload the first returned.
C3_Original ==
  (last.type \in Categories /\ last.prev \in {"hit", "live", "failed"}
     /\ last.early) =>
    /\ last.prev \in {"live", "failed"} => last.fetch = 0
    /\ last.pc = "done" => last.value = last.prevValue

\* C3 amended: a loadData(c) called less than the expiry window after the
\* latest store of a fetched payload for c, with no clearCache() between that
\* store and the call, issues no fetch and returns that payload.
C3_CachedWithinWindow ==
  \A c \in Known :
    (c.storedFetch # 0 /\ c.storedAge < cacheExpiry) =>
      /\ c.fetch = 0
      /\ c.outcome = "hit"
      /\ c.value = parsedBody(c.type, c.storedFetch)

\* C3 witness: a call that returned the payload the call before it had fetched
\* and stored, one millisecond short of the expiry window later.
C3_Witness ==
  /\ last.outcome = "hit"
  /\ last.prev = "live"
  /\ last.value = last.prevValue
  /\ last.storedAge = cacheExpiry - 1

\* C4: a loadData(c) called when the cache entry for c is as old as the expiry
\* window or older issues exactly one fetch, and no later step of it issues another.
C4_ExpiredRefetches ==
  [][/\ \A t \in Categories :
          (Called(t) /\ cacheKey(t) \in DOMAIN cache
             /\ now - cache[cacheKey(t)].timestamp >= cacheExpiry) =>
            /\ fetchCount' = fetchCount + 1
            /\ last'.fetch = fetchCount'
     /\ (\A t \in Categories : ~Called(t)) => fetchCount' = fetchCount]_vars

\* C4 witness: a call found an entry exactly as old as the window and fetched.
C4_Witness ==
  last.age = cacheExpiry /\ last.fetch # 0

\* C5: loadData returns the cached payload without fetching exactly when the
\* entry is younger than the expiry window; an entry as old as the window or
\* older is never returned, and when the new fetch fails the fallback is.
C5_FreshOnly ==
  \A c \in Known :
    /\ (c.age >= 0 /\ c.age < cacheExpiry) <=> c.outcome = "hit"
    /\ c.outcome = "hit" => c.fetch = 0 /\ c.value = c.held
    /\ c.outcome # "hit" => c.fetch # 0
    /\ (c.age >= cacheExpiry /\ c.pc = "done") =>
         /\ c.value # c.held
         /\ c.outcome = "failed" => c.value = fallbackData[c.type]

\* C5 witness: a call found an entry exactly as old as the window, its fetch
\* failed and it returned the fallback.
C5_Witness ==
  /\ last.age = cacheExpiry
  /\ last.outcome = "failed"
  /\ last.value = fallbackData[last.type]
  /\ last.held.kind = "live"

\* C6 as stated: when its fetch fails, loadData(c) returns the fallback for c
\* and the cache status shows no entry for c afterwards.
C6_Original ==
  [][FailedNow =>
       /\ last'.value = fallbackData[last'.type]
       /\ cacheKey(last'.type) \notin DOMAIN getCacheStatus']_vars

\* C6 amended: when its fetch fails, loadData(c) returns the fallback for c
\* and stores nothing: the cache status shows an entry for c afterwards exactly
\* if it showed one just before, and then the entry is the expired one the
\* call found or one stored by another call since this one was made.
C6_FailureReturnsFallback ==
  [][FailedNow =>
       LET key == cacheKey(last'.type)
       IN /\ last'.value = fallbackData[last'.type]
          /\ key \in DOMAIN getCacheStatus' <=> key \in DOMAIN getCacheStatus
          /\ key \in DOMAIN getCacheStatus' =>
               \/ last'.age >= cacheExpiry
               \/ lastStore[last'.type].fetch # last'.storedFetch]_vars

\* C6 witness: a call failed and the expired entry it had found is still cached.
C6_Witness ==
  /\ last.outcome = "failed"
  /\ last.age >= cacheExpiry
  /\ cacheKey(last.type) \in DOMAIN getCacheStatus
  /\ cache[cacheKey(last.type)].data = last.held

\* C7: a failing loadData changes nothing in the cache (only a loadData that
\* returns a fetched body, and clearCache, do), and the failure is not cached:
\* the call made next for that category, finding no fresh entry, fetches again.
C7_FailureLeavesCache ==
  [][/\ FailedNow => cache' = cache
     /\ cache' # cache => StoredNow \/ cache' = << >>
     /\ \A t \in Categories :
          (Called(t) /\ last'.prev = "failed" /\ ~(last'.age >= 0 /\ last'.age < cacheExpiry)) =>
            /\ last'.fetch # 0
            /\ fetchCount' = fetchCount + 1]_vars

\* C7 witness: the call made after a failed one for the same category has
\* issued a fetch of its own.
C7_Witness ==
  /\ last.prev = "failed"
  /\ last.prevValue = fallbackData[last.type]
  /\ last.pc = "fetch"
  /\ last.fetch = fetchCount

\* C8 as stated: after clearCache() the cache status has no entries, and the
\* next loadData(c) for every c that was cached issues a fetch.
C8_Original ==
  [][/\ (mustRefetch' # mustRefetch /\ mustRefetch \subseteq mustRefetch') =>
          DOMAIN getCacheStatus' = {}
     /\ \A t \in Categories : (Called(t) /\ t \in mustRefetch) => last'.fetch # 0]_vars

\* C9: loadAllData has started all six loadData before any fetch completes
\* (every state that has the invocation has its six calls, in the order of
\* Types), returns only when all six have completed, then does return, and a
\* call that failed leaves every other pending call able to complete.
C9_FanOutFanIn ==
  \A a \in DOMAIN alls :
    /\ \A i \in DOMAIN Types :
         /\ alls[a].ids[i] \in DOMAIN calls
         /\ Inner(a)[i].type = Types[i]
         /\ Inner(a)[i].owner = a
         /\ Inner(a)[i].pc = "fetch" => ENABLED FetchSettles(alls[a].ids[i], "ok")
         /\ Inner(a)[i].pc = "json" => ENABLED JsonSettles(alls[a].ids[i], "parsed")
    /\ alls[a].pc = "done" => \A i \in DOMAIN Types : Inner(a)[i].pc = "done"
    /\ (alls[a].pc = "await" /\ \A i \in DOMAIN Types : Inner(a)[i].pc = "done") =>
         ENABLED LoadAllSettles(a)
    /\ (alls[a].pc = "await" /\ \E i \in DOMAIN Types : Inner(a)[i].pc # "done") =>
         ~ENABLED LoadAllSettles(a)

\* C9 witness: one category has failed, another is still being fetched, and
\* loadAllData has not returned.
C9_Witness ==
  \E a \in DOMAIN alls :
    /\ alls[a].pc = "await"
    /\ \E i, j \in DOMAIN Types :
         Inner(a)[i].outcome = "failed" /\ Inner(a)[j].pc = "fetch"

\* C10 as stated: two overlapping loadData(c) never both have a fetch for c in
\* flight, and the cache entry for c is never overwritten by the result of a
\* fetch issued earlier than the one whose result it holds.
C10_Original ==
  [][/\ \A j, k \in DOMAIN calls' :
          (j # k /\ calls'[j].owner = 0 /\ calls'[k].owner = 0) =>
            calls'[j].type # calls'[k].type
     /\ \A key \in DOMAIN cache \cap DOMAIN cache' :
          cache'[key].data.fetch >= cache[key].data.fetch]_vars

\* The second half of C10 alone.
C10_NoLostUpdate ==
  [][\A key \in DOMAIN cache \cap DOMAIN cache' :
       cache'[key].data.fetch >= cache[key].data.fetch]_vars

\* C11: the cache is empty as long as no fetch was issued, and holds an entry
\* for category c only if a fetch for c completed successfully since the last
\* clearCache(); the payload of the entry is the body parsed from the latest
\* such fetch, never a fallback payload, and its timestamp is the time at which
\* that fetch completed.
C11_CacheHoldsFetched ==
  /\ fetchCount = 0 => cache = << >>
  /\ \A key \in DOMAIN cache :
       \E t \in Categories :
         /\ key = cacheKey(t)
         /\ lastStore[t].fetch \in 1..fetchCount
         /\ cache[key].data = parsedBody(t, lastStore[t].fetch)
         /\ cache[key].data # fallbackData[t]
         /\ cache[key].timestamp = lastStore[t].at

\* C11 witness: a loadData has failed and returned the fallback while the cache
\* holds, for the same category, the body stored at instant 1.
C11_Witness ==
  /\ last.outcome = "failed"
  /\ last.value = fallbackData[last.type]
  /\ cacheKey(last.type) \in DOMAIN cache
  /\ cache[cacheKey(last.type)].timestamp = 1
  /\ cache[cacheKey(last.type)].data.kind = "live"

\* C13 as stated: getCacheStatus() reports one record for exactly each entry of
\* the cache, and reports an entry as expired exactly when its age has reached
\* the expiry window, which is exactly when loadData for that category would
\* not return it and fetch.
C13_Original ==
  /\ DOMAIN getCacheStatus = DOMAIN cache
  /\ \A t \in Categories :
       cacheKey(t) \in DOMAIN cache =>
         /\ getCacheStatus[cacheKey(t)].expired
              <=> now - cache[cacheKey(t)].timestamp >= cacheExpiry
         /\ getCacheStatus[cacheKey(t)].expired <=> ~cacheHit(t)

\* In this step applyTheme runs: at a page load, a toggle, a direct call, or a
\* change of the system colour scheme that finds no saved theme.
Applying ==
  \/ seen'.event \in {"load", "toggle", "apply"} /\ seen' # seen
  \/ seen'.event = "system" /\ prefersDark' # prefersDark /\ ~truthy(storageGet(storageKey))

\* The observers that notifyObservers has to call in this step.
Registered == IF seen'.event = "load" THEN << >> ELSE themeManager.observers

\* C16: addObserver registers the callback after the ones registered before,
\* removeObserver removes it, and every applyTheme calls each observer then
\* registered exactly once, in registration order, with the new theme; a
\* callback that throws is logged, the observers after it are still called,
\* and nothing propagates out of applyTheme, which completes.
C16_NotifiesEveryObserver ==
  [][/\ (seen'.event = "add" /\ seen' # seen) =>
          /\ Len(themeManager'.observers) = Len(themeManager.observers) + 1
          /\ SubSeq(themeManager'.observers, 1, Len(themeManager.observers))
               = themeManager.observers
     /\ (seen'.event = "remove" /\ themeManager' # themeManager) =>
          \E callback \in Callbacks :
            /\ \A i \in DOMAIN themeManager'.observers :
                 themeManager'.observers[i] # callback
            /\ Len(themeManager'.observers)
                 = Cardinality({i \in DOMAIN themeManager.observers :
                                  themeManager.observers[i] # callback})
     /\ Applying =>
          /\ Len(seen'.delivered) = Len(Registered)
          /\ \A i \in DOMAIN Registered :
               seen'.delivered[i] = [callback |-> Registered[i],
                                     theme |-> themeManager'.currentTheme]
          /\ seen'.logged = Cardinality({i \in DOMAIN Registered : Registered[i] \in Throwing})
          /\ ~seen'.escaped
          /\ body' = themeManager'.currentTheme]_vars

\* C16 witness: a toggle notified two observers of which the first threw: the
\* error was logged and the second was called.
C16_Witness ==
  /\ seen.event = "toggle"
  /\ seen.notified = <<"g", "f">>
  /\ seen.logged = 1
  /\ Len(seen.delivered) = 2
  /\ seen.delivered[2] = [callback |-> "f", theme |-> themeManager.currentTheme]

\* C17: when the storage write of the latest applyTheme succeeded, the value
\* stored under the storage key is currentTheme, and a new ThemeManager that
\* runs loadTheme() on that storage ends with that theme, whatever the system
\* colour scheme is.
C17_ThemeRoundTrips ==
  seen.written = "ok" =>
    /\ storageKey \in DOMAIN localStorage
    /\ storageGet(storageKey) = themeManager.currentTheme
    /\ \A matches \in BOOLEAN, ok \in BOOLEAN :
         loadTheme(newThemeManager, matches, ok, {}).themeManager.currentTheme
           = themeManager.currentTheme

\* C17 witness: the page was loaded again after a toggle to the theme the
\* system does not prefer, and has that theme.
C17_Witness ==
  /\ seen.event = "load"
  /\ seen.written = "ok"
  /\ seen.saved = "dark"
  /\ ~prefersDark
  /\ themeManager.currentTheme = "dark"
  /\ localStorage[storageKey] = JSONstringify("dark")

\* C18: in a page loaded with no saved theme or one of the two themes saved,
\* currentTheme and the data-theme attribute of the body are equal and one of
\* the two themes; a toggle from 'light' gives 'dark' and one from 'dark'
\* gives 'light', and two toggles in a row give the theme before them.
C18_ToggleSwitches ==
  (seen.loaded /\ seen.saved \in {Null, "light", "dark"}) =>
    /\ themeManager.currentTheme = body
    /\ body \in Themes
    /\ seen.event = "toggle" =>
         /\ seen.from = "light" => themeManager.currentTheme = "dark"
         /\ seen.from = "dark" => themeManager.currentTheme = "light"
         /\ Len(trail) = 2 => themeManager.currentTheme = trail[1]

\* C18 witness: two toggles in a row in a page that took the dark theme from
\* the system colour scheme.
C18_Witness ==
  /\ seen.saved = Null
  /\ seen.event = "toggle"
  /\ trail = <<"dark", "light">>
  /\ themeManager.currentTheme = "dark"
  /\ body = "dark"

\* C19 as stated: once the page is loaded, a change of the system colour
\* scheme switches the theme to the system's when the user has set no
\* preference (no saved theme at the load, no toggle since), and leaves the
\* theme as it is when the user has set one.
C19_Original ==
  [][(seen.loaded /\ prefersDark' # prefersDark) =>
       IF seen.manual
       THEN themeManager'.currentTheme = themeManager.currentTheme
       ELSE themeManager'.currentTheme = (IF prefersDark' THEN "dark" ELSE "light")]_vars

\* C20 as stated: after renderWithExpand of a non-empty list the container
\* shows the first min(n, |items|) items in order; the button is displayed
\* exactly when |items| > n, then labelled 'Show k More'; from there each
\* click alternates between all items with 'Show Less' and the first n items
\* with 'Show k More', so that an even number of clicks gives the first
\* display again.
C20_Original ==
  \A g \in Grids :
    LET b == expandButtonOf[g]
        items == shown[b].items
        n == shown[b].initialCount
        less == IF n < Len(items) THEN n ELSE Len(items)
    IN Len(items) > 0 =>
         /\ dom.buttons[b].display = "flex" <=> Len(items) > n
         /\ Len(items) <= n => dom.grids[g] = markup(SubSeq(items, 1, less))
         /\ (Len(items) > n /\ shown[b].clicks = 0) =>
              /\ dom.grids[g] = markup(SubSeq(items, 1, less))
              /\ dom.buttons[b].text = showMore(Len(items) - n)
         /\ (Len(items) > n /\ shown[b].clicks = 1) =>
              /\ dom.grids[g] = markup(items)
              /\ dom.buttons[b].text = "Show Less"

\* C12 as stated: a payload held by the cache is as it was when cache.set
\* stored it: the projects array of the payload of a themed category has the
\* order it had then, whatever the page has rendered since.
C12_Original ==
  \A t \in ThemedCategories :
    cacheKey(t) \in DOMAIN cache =>
      projectsIn(reordered, cache[cacheKey(t)].data) = pristine(cache[cacheKey(t)].data).projects

\* In this step the theme observer of the app is notified of a theme change.
ObserverRuns ==
  /\ Applying
  /\ \E i \in DOMAIN themeManager.observers : themeManager.observers[i] = "render"

C15_Original ==
  app.isInitialized =>
    \A g \in Grids :
      \A i \in DOMAIN dom.grids[g] :
        dom.grids[g][i].of.type
          = (IF themeManager.currentTheme = "dark" THEN "cyber" ELSE "webdev")

\* C21 as stated: whatever clicks and renders came before, a displayed expand
\* button has the expanded class exactly when its container shows all the
\* items of the last render, a button labelled 'Show k More' does not have the
\* class (so that a click on it expands the list), and the button has its
\* click listener, for the items of the last render.
C21_Original ==
  \A g \in Grids :
    LET b == expandButtonOf[g]
        items == shown[b].items
        n == shown[b].initialCount
    IN (Len(items) > n /\ dom.buttons[b].display = "flex") =>
         /\ dom.buttons[b].expanded <=> dom.grids[g] = markup(items)
         /\ dom.buttons[b].text = showMore(Len(items) - n) => ~dom.buttons[b].expanded
         /\ dom.buttons[b].listener
              = [items |-> items, initialCount |-> n, containerId |-> g]

\* The category of which the page shows the skills and the projects under
\* theme.
categoryOf(theme) == IF theme = "dark" THEN "cyber" ELSE "webdev"

\* The theme observer is among the observers of the theme manager.
Listening ==
  \E i \in DOMAIN themeManager.observers : themeManager.observers[i] = "render"

\* C22: the theme observer is registered and isInitialized is true only once
\* loadAllData() has resolved, this.data holds all the categories and the
\* components are rendered; so the observer never runs while this.data lacks
\* webdev or cyber, whatever toggles are made while the data loads; and the
\* first render shows the category of the theme current when it is made, the
\* one of the latest toggle: every card it puts in the grids is of that
\* category, and the skills grid is filled if that category has skills.
C22_ObserverAfterLoad ==
  [][/\ (Listening' \/ app'.isInitialized) =>
          /\ app'.pc = "ready"
          /\ alls'[Len(alls')].pc = "done"
          /\ DOMAIN app'.data = Categories
          /\ seen'.loaded
     /\ ObserverRuns => ThemedCategories \subseteq DOMAIN app.data
     /\ (~Listening /\ Listening') =>
          LET cat == categoryOf(body')
              skills == skillsOf(app'.data[cat])
          IN /\ ~app.isInitialized /\ app'.isInitialized
             /\ themeManager'.currentTheme = body'
             /\ \A g \in Grids : \A i \in DOMAIN dom'.grids[g] :
                  dom'.grids[g][i].of.type = cat
             /\ (skills # Absent /\ Len(skills) > 0) =>
                  dom'.grids["skillsGrid"] = markup(sliceTo(skills, 3))
    ]_vars

\* The page is ready after a toggle made while the data was loading: the theme
\* is the opposite of the system's, and the skills grid shows the skills of
\* the category of that theme.
C22_Witness ==
  /\ app.pc = "ready"
  /\ seen.event = "ready"
  /\ Listening
  /\ themeManager.currentTheme = "dark"
  /\ ~prefersDark
  /\ Len(dom.grids["skillsGrid"]) > 0
  /\ dom.grids["skillsGrid"][1].of.type = "cyber"

\* getNextQuote() returns in this step.
QuoteReturned ==
  \/ rotation.pc = "loop" /\ rotation'.pc = "idle"
  \/ rotation.pc = "idle" /\ rotation'.calls > rotation.calls /\ rotation'.pc = "idle"

\* C23: when there are quotes, currentQuoteIndex is always an index of the
\* list; getNextQuote() returns the quote at the new currentQuoteIndex, which
\* with two quotes or more is another index than the one before (so another
\* quote than the one returned or initially displayed before), and with one
\* quote is that quote; without quotes (an empty list, or none) it returns
\* undefined, leaves currentQuoteIndex as it was and nothing is displayed; and
\* with a fair random choice every call of it returns.
C23_NextQuoteDiffers ==
  /\ [][ /\ rotation'.quotes = rotation.quotes
         /\ (~noQuotes(rotation.quotes)) =>
              (rotation'.currentQuoteIndex \in 0..(Len(rotation.quotes) - 1))
         /\ (QuoteReturned /\ ~noQuotes(rotation.quotes)) =>
              /\ rotation'.returned = quoteAt(rotation.quotes, rotation'.currentQuoteIndex)
              /\ rotation'.displayed = rotation'.returned
              /\ (Len(rotation.quotes) > 1) =>
                   /\ rotation'.currentQuoteIndex # rotation.currentQuoteIndex
                   /\ rotation'.returned # rotation.displayed
              /\ (Len(rotation.quotes) = 1) =>
                   (rotation'.returned = quoteAt(rotation.quotes, 0))
         /\ (QuoteReturned /\ noQuotes(rotation.quotes)) =>
              /\ rotation'.returned = NoQuote
              /\ rotation'.currentQuoteIndex = rotation.currentQuoteIndex
              /\ rotation'.displayed = rotation.displayed
        ]_vars
  /\ (rotation.pc = "loop") ~> (rotation.pc = "idle")

\* getNextQuote() has returned for the second time with three quotes, after
\* a pass of its loop that drew the current index, by calls of the interval and of a
\* click: the quote displayed is again another one.
C23_Witness ==
  /\ Len(rotation.quotes) = 3
  /\ rotation.quotes # NoQuotes
  /\ rotation.pc = "idle"
  /\ rotation.calls = 2
  /\ rotation.tries > 0
  /\ rotation.currentQuoteIndex = 0
  /\ rotation.displayed = quoteAt(rotation.quotes, 0)

\* C24: a call of the debounced function does not invoke func, it leaves one
\* timer pending, due wait after the call; func is invoked only when at least
\* wait has passed since the most recent call, with the arguments of that
\* call, once, and not again before another call; so when no timer is pending
\* func was invoked once for each burst of calls less than wait apart (a call
\* made exactly wait after the one before it, at the instant the timer is due,
\* either continues the burst or follows the invocation); and after a call
\* func is eventually invoked with the arguments of the most recent call.
C24_InvokedOncePerBurst ==
  /\ [][ /\ (debounced'.calls > debounced.calls) =>
             /\ debounced'.log = debounced.log
             /\ debounced'.timers =
                  {[id |-> debounced'.timeout, due |-> debounced.now + wait,
                    args |-> debounced'.lastCall.args]}
         /\ (debounced'.log # debounced.log) =>
             /\ debounced'.log = Append(debounced.log,
                  [at |-> debounced.now, args |-> debounced.lastCall.args])
             /\ debounced.now - debounced.lastCall.at >= wait
             /\ debounced.calls > 0
             /\ debounced.sinceCall = 0
             /\ debounced'.timers = {}
         /\ (debounced'.timers = {}) =>
             /\ Len(debounced'.log) >= debounced'.bursts
             /\ Len(debounced'.log) <= debounced'.bursts + debounced'.ties
         /\ (debounced'.timers # {}) =>
             /\ Len(debounced'.log) >= debounced'.bursts - 1
             /\ Len(debounced'.log) <= debounced'.bursts + debounced'.ties - 1
        ]_vars
  /\ (debounced.timers # {}) ~>
       /\ debounced.timers = {}
       /\ debounced.sinceCall = 1
       /\ debounced.log[Len(debounced.log)].args = debounced.lastCall.args

\* Three calls, each one tick after the one before, then quiet: func was
\* invoked once, wait after the third call, with the arguments of that call.
C24_Witness ==
  /\ debounced.calls = 3
  /\ debounced.bursts = 1
  /\ debounced.ties = 0
  /\ debounced.lastCall = [at |-> 2, args |-> "b"]
  /\ debounced.timers = {}
  /\ debounced.log = <<[at |-> 2 + wait, args |-> "b"]>>

====
